---- MODULE Spec2Model ----
(***************************************************************************)
(* Model of checksum.cpp: the three byte-wise CRC lookup tables            *)
(* (CRC-32/ISO-HDLC, CRC-16/ARC, CRC-7/MMC), the table-driven checksum     *)
(* functions and the menu loop of main that initialises the tables and     *)
(* calls the checksum functions.                                           *)
(*                                                                         *)
(* A 32-bit word does not fit TLC's integers, so a uint32_t is the pair    *)
(* <<high 16 bits, low 16 bits>>; uint16_t and uint8_t are integers kept   *)
(* in their width.                                                         *)
(***************************************************************************)
EXTENDS Integers, Sequences, FiniteSets, TLC

\* longest input line tried, over the alphabet below
MaxLen == 2
\* the menu selections tried are -1 and 0..MaxOpt
MaxOpt == 5

SIZE == 256
polinomCRC32 == <<60856, 33568>>   \* 0xEDB88320
polinomCRC16 == 40961              \* 0xA001
polinomCRC7 == 18                  \* 0x12

(***************************************************************************)
(* Machine arithmetic.                                                     *)
(***************************************************************************)
RECURSIVE XorBits(_, _, _)
XorBits(a, b, n) ==
    IF n = 0 THEN 0
    ELSE ((a + b) % 2) + 2 * XorBits(a \div 2, b \div 2, n - 1)

\* ^ on operands that fit 16 bits, and on uint32_t
Xor16(a, b) == XorBits(a, b, 16)
Xor32(x, y) == <<Xor16(x[1], y[1]), Xor16(x[2], y[2])>>

\* >> 1 and >> 8 on uint32_t
Shr32(x) == <<x[1] \div 2, (x[2] \div 2) + (x[1] % 2) * 32768>>
Shr32by8(x) == <<x[1] \div 256, (x[2] \div 256) + (x[1] % 256) * 256>>

\* the conversion of an int result back to uint8_t
\* (U8_wide: the faulty variant that keeps the wider value)
U8_wide(x) == x
U8(x) == x % 256

\* octet <<= 1 on uint8_t: the int result is cut back to 8 bits
Shl8(x) == U8(2 * x)

\* the build's char: signed (bytes 0x80..0xFF are negative) or unsigned
CharVal(b, signed) == IF signed /\ b >= 128 THEN b - 256 ELSE b

\* an int as the 32 bits of its two's complement, and back
Bits32(c) == IF c < 0 THEN <<65535, 65536 + c>> ELSE <<c \div 65536, c % 65536>>
Int32(x) == IF x[1] >= 32768 THEN (x[1] - 65536) * 65536 + x[2] ELSE x[1] * 65536 + x[2]

\* what a read outside tabel_CRC7 can deliver: some byte of neighbouring memory
OcteteNedefinite == {0, 90, 255}

(***************************************************************************)
(* initializare_tabel32 / 16 / 7: the remainder stored for one dividend.   *)
(***************************************************************************)
RECURSIVE Bucla32(_, _)
Bucla32(octet, bit) ==
    IF bit = 8 THEN octet
    ELSE Bucla32(IF octet[2] % 2 = 1 THEN Xor32(Shr32(octet), polinomCRC32)
                                     ELSE Shr32(octet), bit + 1)

RECURSIVE Bucla16(_, _)
Bucla16(octet, bit) ==
    IF bit = 8 THEN octet
    ELSE Bucla16(IF octet % 2 = 1 THEN Xor16(octet \div 2, polinomCRC16)
                                  ELSE octet \div 2, bit + 1)

RECURSIVE Bucla7(_, _)
Bucla7(octet, bit) ==
    IF bit = 8 THEN octet
    ELSE Bucla7(IF octet >= 128 THEN U8(Xor16(Shl8(octet), polinomCRC7))
                                ELSE Shl8(octet), bit + 1)

Intrare32(d) == Bucla32(<<0, d>>, 0)
Intrare16(d) == Bucla16(d, 0)
Intrare7(d) == Bucla7(d, 0)

(***************************************************************************)
(* calculCRC32 / 16 / 7: initial register, one loop iteration, result.     *)
(***************************************************************************)
\* (rezultatInitial32_zero: the faulty variant that starts CRC-32 from 0)
rezultatInitial32_zero == <<0, 0>>
rezultatInitial32 == <<65535, 65535>>
rezultatInitial16 == 0
rezultatInitial7 == 0

\* termen = (input[bit] ^ rezultat) & 0xFF, the char converted to uint32_t
Termen32(r, b, signed) == Xor32(Bits32(CharVal(b, signed)), r)[2] % 256
\* the same on int, rezultat promoted
Termen16(r, b, signed) == Xor32(Bits32(CharVal(b, signed)), <<0, r>>)[2] % 256
\* rezultat ^ input[bit] on int, used as the index unmasked
Termen7(r, b, signed) == Int32(Xor32(<<0, r>>, Bits32(CharVal(b, signed))))

\* rezultat = (rezultat >> 8) ^ tabel[termen]
\* (Urmator32_noshift: the faulty variant that forgets the shift)
Urmator32_noshift(r, e) == Xor32(r, e)
Urmator32(r, e) == Xor32(Shr32by8(r), e)
Urmator16(r, e) == Xor16(r \div 256, e)

\* the value returned
\* (Final32_noxor, Final7_noshift: faulty variants without the final XOR / shift)
Final32_noxor(r) == r
Final32(r) == Xor32(r, <<65535, 65535>>)
Final16(r) == r
Final7_noshift(r) == r
Final7(r) == r \div 2

(***************************************************************************)
(* State.                                                                  *)
(***************************************************************************)
VARIABLES
    pc,                       \* where main is: "menu", inside an initialiser,
                              \* inside a checksum function, or "iesit"
    opt,                      \* main's opt, the last selection read
    sir_intrare,              \* main's sir_intrare, the last line read
    afisat,                   \* what this iteration of the loop has printed
    tabel_CRC32_initializat,
    tabel_CRC16_initializat,
    tabel_CRC7_initializat,
    tabel_CRC32,
    tabel_CRC16,
    tabel_CRC7,
    deimpartit,               \* loop counter of the running initialiser
    bit,                      \* loop counter of the running checksum function
    rezultat,                 \* its register
    termen,                   \* the index of its last table read
    lookups,                  \* table reads made by the current / last call
    ultim,                    \* the last checksum call finished: its result
    construit,                \* a first initialisation has completed
    charSigned                \* whether the build's char is signed

vars == <<pc, opt, sir_intrare, afisat, tabel_CRC32_initializat,
          tabel_CRC16_initializat, tabel_CRC7_initializat, tabel_CRC32,
          tabel_CRC16, tabel_CRC7, deimpartit, bit, rezultat, termen, lookups,
          ultim, construit, charSigned>>

flags == <<tabel_CRC32_initializat, tabel_CRC16_initializat, tabel_CRC7_initializat>>
tabele == <<tabel_CRC32, tabel_CRC16, tabel_CRC7>>
calcVars == <<bit, rezultat, termen, lookups>>

Index == 0 .. (SIZE - 1)

(***************************************************************************)
(* Inputs of the model.                                                    *)
(***************************************************************************)
Octeti == {0, 49, 255}
RECURSIVE Siruri(_, _)
Siruri(A, n) ==
    IF n = 0 THEN {<<>>}
    ELSE LET S == Siruri(A, n - 1)
         IN  S \cup {Append(s, a) : s \in {t \in S : Len(t) = n - 1}, a \in A}

\* "123456789"
SirVerificare == <<49, 50, 51, 52, 53, 54, 55, 56, 57>>

Inputs == Siruri(Octeti, MaxLen) \cup {SirVerificare, <<128>>}
Optiuni == {-1} \cup (0 .. MaxOpt)

Mesaj(m, v) == [msg |-> m, val |-> v]
Nimic == Mesaj("", 0)

(***************************************************************************)
(* Initial state: zero-initialised globals, main about to read a selection.*)
(***************************************************************************)
InitComun ==
    /\ pc = "menu"
    /\ opt = 0                  \* not initialised, and not read before cin >> opt
    /\ sir_intrare = <<>>
    /\ afisat = Nimic
    /\ deimpartit = 0
    /\ bit = 0
    /\ rezultat = 0
    /\ termen = 0
    /\ lookups = 0
    /\ ultim = [alg |-> "", sir |-> <<>>, val |-> 0]
    /\ charSigned \in BOOLEAN

Init ==
    /\ InitComun
    /\ tabel_CRC32_initializat = FALSE
    /\ tabel_CRC16_initializat = FALSE
    /\ tabel_CRC7_initializat = FALSE
    /\ tabel_CRC32 = [d \in Index |-> <<0, 0>>]
    /\ tabel_CRC16 = [d \in Index |-> 0]
    /\ tabel_CRC7 = [d \in Index |-> 0]
    /\ construit = FALSE

(***************************************************************************)
(* main: the switch.                                                       *)
(***************************************************************************)
\* switch ((optiuni)opt): the case taken, 5 standing for default. The cast
\* keeps the int's value, and the switch compares it with 0..4.
\* (Ramura_clamp: the faulty variant that maps a bad selection to a valid one)
Ramura_clamp(o) == IF o < 0 THEN 0 ELSE IF o > 4 THEN 4 ELSE o
Ramura(o) == IF o \in 0 .. 4 THEN o ELSE 5

\* the tests of the flags in the three calcul cases
\* (Permis32_mereu: the faulty variant that does not test the flag)
Permis32_mereu == TRUE
Permis32 == tabel_CRC32_initializat
Permis16 == tabel_CRC16_initializat
Permis7 == tabel_CRC7_initializat

Iesire(o) ==
    /\ pc = "menu" /\ Ramura(o) = 0
    /\ opt' = o
    /\ afisat' = Mesaj("Ati parasit programul.", 0)
    /\ pc' = "iesit"
    /\ UNCHANGED <<sir_intrare, flags, tabele, deimpartit, calcVars, ultim,
                   construit, charSigned>>

\* case initializare, up to the loop of initializare_tabel32
Initializare(o) ==
    /\ pc = "menu" /\ Ramura(o) = 1
    /\ opt' = o
    /\ afisat' = Nimic
    /\ tabel_CRC32_initializat' = TRUE
    /\ deimpartit' = 0
    /\ pc' = "init32"
    /\ UNCHANGED <<sir_intrare, tabel_CRC16_initializat, tabel_CRC7_initializat,
                   tabele, calcVars, ultim, construit, charSigned>>

Bucla_tabel32 ==
    /\ pc = "init32" /\ deimpartit < SIZE
    /\ tabel_CRC32' = [tabel_CRC32 EXCEPT ![deimpartit] = Intrare32(deimpartit)]
    /\ deimpartit' = deimpartit + 1
    /\ UNCHANGED <<pc, opt, sir_intrare, afisat, flags, tabel_CRC16, tabel_CRC7,
                   calcVars, ultim, construit, charSigned>>

\* initializare_tabel32 returns, initializare_tabel16 starts
Start_tabel16 ==
    /\ pc = "init32" /\ deimpartit = SIZE
    /\ tabel_CRC16_initializat' = TRUE
    /\ deimpartit' = 0
    /\ pc' = "init16"
    /\ UNCHANGED <<opt, sir_intrare, afisat, tabel_CRC32_initializat,
                   tabel_CRC7_initializat, tabele, calcVars, ultim, construit,
                   charSigned>>

Bucla_tabel16 ==
    /\ pc = "init16" /\ deimpartit < SIZE
    /\ tabel_CRC16' = [tabel_CRC16 EXCEPT ![deimpartit] = Intrare16(deimpartit)]
    /\ deimpartit' = deimpartit + 1
    /\ UNCHANGED <<pc, opt, sir_intrare, afisat, flags, tabel_CRC32, tabel_CRC7,
                   calcVars, ultim, construit, charSigned>>

Start_tabel7 ==
    /\ pc = "init16" /\ deimpartit = SIZE
    /\ tabel_CRC7_initializat' = TRUE
    /\ deimpartit' = 0
    /\ pc' = "init7"
    /\ UNCHANGED <<opt, sir_intrare, afisat, tabel_CRC32_initializat,
                   tabel_CRC16_initializat, tabele, calcVars, ultim, construit,
                   charSigned>>

Bucla_tabel7 ==
    /\ pc = "init7" /\ deimpartit < SIZE
    /\ tabel_CRC7' = [tabel_CRC7 EXCEPT ![deimpartit] = Intrare7(deimpartit)]
    /\ deimpartit' = deimpartit + 1
    /\ UNCHANGED <<pc, opt, sir_intrare, afisat, flags, tabel_CRC32, tabel_CRC16,
                   calcVars, ultim, construit, charSigned>>

\* initializare_tabel7 returns, main prints and goes back to the menu
Sfarsit_initializare ==
    /\ pc = "init7" /\ deimpartit = SIZE
    /\ afisat' = Mesaj("Tabelele de cautare CRC32, CRC16, CRC7 au fost initializare.", 0)
    /\ construit' = TRUE
    /\ pc' = "menu"
    /\ UNCHANGED <<opt, sir_intrare, flags, tabele, deimpartit, calcVars, ultim,
                   charSigned>>

Avertizare32(o) ==
    /\ pc = "menu" /\ Ramura(o) = 2 /\ ~Permis32
    /\ opt' = o
    /\ afisat' = Mesaj("Se recomanda initializarea tabelului de cautare CRC32 intai.", 0)
    /\ UNCHANGED <<pc, sir_intrare, flags, tabele, deimpartit, calcVars, ultim,
                   construit, charSigned>>

Avertizare16(o) ==
    /\ pc = "menu" /\ Ramura(o) = 3 /\ ~Permis16
    /\ opt' = o
    /\ afisat' = Mesaj("Se recomanda initializarea tabelului de cautare CRC16 intai.", 0)
    /\ UNCHANGED <<pc, sir_intrare, flags, tabele, deimpartit, calcVars, ultim,
                   construit, charSigned>>

Avertizare7(o) ==
    /\ pc = "menu" /\ Ramura(o) = 4 /\ ~Permis7
    /\ opt' = o
    /\ afisat' = Mesaj("Se recomanda initializarea tabelului de cautare CRC7 intai.", 0)
    /\ UNCHANGED <<pc, sir_intrare, flags, tabele, deimpartit, calcVars, ultim,
                   construit, charSigned>>

Implicit(o) ==
    /\ pc = "menu" /\ Ramura(o) = 5
    /\ opt' = o
    /\ afisat' = Mesaj("Optiune incorecta.", 0)
    /\ UNCHANGED <<pc, sir_intrare, flags, tabele, deimpartit, calcVars, ultim,
                   construit, charSigned>>

(***************************************************************************)
(* The calcul cases: the line is read and calculCRCx is entered.           *)
(***************************************************************************)
Apel(o, s, nume, r0) ==
    /\ opt' = o
    /\ afisat' = Nimic
    /\ sir_intrare' = s
    /\ rezultat' = r0
    /\ bit' = 0
    /\ termen' = 0
    /\ lookups' = 0
    /\ pc' = nume
    /\ UNCHANGED <<flags, tabele, deimpartit, ultim, construit, charSigned>>

Calcul32(o, s) ==
    /\ pc = "menu" /\ Ramura(o) = 2 /\ Permis32
    /\ Apel(o, s, "calc32", rezultatInitial32)

Calcul16(o, s) ==
    /\ pc = "menu" /\ Ramura(o) = 3 /\ Permis16
    /\ Apel(o, s, "calc16", rezultatInitial16)

Calcul7(o, s) ==
    /\ pc = "menu" /\ Ramura(o) = 4 /\ Permis7
    /\ Apel(o, s, "calc7", rezultatInitial7)

Pas32 ==
    /\ pc = "calc32" /\ bit < Len(sir_intrare)
    /\ LET t == Termen32(rezultat, sir_intrare[bit + 1], charSigned)
       IN  /\ termen' = t
           /\ rezultat' = Urmator32(rezultat, tabel_CRC32[t])
    /\ bit' = bit + 1
    /\ lookups' = lookups + 1
    /\ UNCHANGED <<pc, opt, sir_intrare, afisat, flags, tabele, deimpartit, ultim,
                   construit, charSigned>>

Pas16 ==
    /\ pc = "calc16" /\ bit < Len(sir_intrare)
    /\ LET t == Termen16(rezultat, sir_intrare[bit + 1], charSigned)
       IN  /\ termen' = t
           /\ rezultat' = Urmator16(rezultat, tabel_CRC16[t])
    /\ bit' = bit + 1
    /\ lookups' = lookups + 1
    /\ UNCHANGED <<pc, opt, sir_intrare, afisat, flags, tabele, deimpartit, ultim,
                   construit, charSigned>>

\* rezultat = tabel_CRC7[rezultat ^ input[bit]]: an index outside the table
\* reads whatever byte lies there
Pas7 ==
    /\ pc = "calc7" /\ bit < Len(sir_intrare)
    /\ LET t == Termen7(rezultat, sir_intrare[bit + 1], charSigned)
       IN  /\ termen' = t
           /\ IF t \in Index
              THEN rezultat' = tabel_CRC7[t]
              ELSE rezultat' \in OcteteNedefinite
    /\ bit' = bit + 1
    /\ lookups' = lookups + 1
    /\ UNCHANGED <<pc, opt, sir_intrare, afisat, flags, tabele, deimpartit, ultim,
                   construit, charSigned>>

\* the function returns and main prints the value; the locals are gone.
\* With tine, the call is remembered in ultim for comparison with the next.
Intoarcere(nume, v, tine) ==
    /\ afisat' = Mesaj(nume, v)
    /\ ultim' = IF tine THEN [alg |-> nume, sir |-> sir_intrare, val |-> v] ELSE ultim
    /\ rezultat' = 0
    /\ bit' = 0
    /\ termen' = 0
    /\ pc' = "menu"
    /\ UNCHANGED <<opt, sir_intrare, flags, tabele, deimpartit, lookups,
                   construit, charSigned>>

Return32(tine) ==
    /\ pc = "calc32" /\ bit = Len(sir_intrare)
    /\ Intoarcere("CRC32", Final32(rezultat), tine)

Return16(tine) ==
    /\ pc = "calc16" /\ bit = Len(sir_intrare)
    /\ Intoarcere("CRC16", Final16(rezultat), tine)

Return7(tine) ==
    /\ pc = "calc7" /\ bit = Len(sir_intrare)
    /\ Intoarcere("CRC7", Final7(rezultat), tine)

PasiInitializare ==
    \/ Bucla_tabel32 \/ Start_tabel16 \/ Bucla_tabel16 \/ Start_tabel7
    \/ Bucla_tabel7 \/ Sfarsit_initializare

PasiCalcul(tine) ==
    \/ Pas32 \/ Return32(tine) \/ Pas16 \/ Return16(tine) \/ Pas7 \/ Return7(tine)

Meniu(S) ==
    \E o \in Optiuni :
        \/ Iesire(o) \/ Initializare(o) \/ Implicit(o)
        \/ Avertizare32(o) \/ Avertizare16(o) \/ Avertizare7(o)
        \/ \E s \in S : Calcul32(o, s) \/ Calcul16(o, s) \/ Calcul7(o, s)

Next ==
    \/ Meniu(Inputs)
    \/ PasiInitializare
    \/ PasiCalcul(FALSE)

Spec == Init /\ [][Next]_vars

(***************************************************************************)
(* The same program, each finished checksum call remembered in ultim.      *)
(***************************************************************************)
InputsDet == Siruri({49, 255}, MaxLen)

NextDet ==
    \/ Meniu(InputsDet)
    \/ PasiInitializare
    \/ PasiCalcul(TRUE)

SpecDet == Init /\ [][NextDet]_vars

(***************************************************************************)
(* The same program with the tables initialised once and the checksum      *)
(* functions applied to every single byte and to short sequences.          *)
(***************************************************************************)
OctetiFn == {0, 49, 255}
InputsFn == {<<b>> : b \in Index} \cup Siruri(OctetiFn, MaxLen)

NextFn ==
    \/ ~tabel_CRC32_initializat /\ Initializare(1)
    \/ \E s \in InputsFn : Calcul32(2, s) \/ Calcul16(3, s) \/ Calcul7(4, s)
    \/ PasiInitializare
    \/ PasiCalcul(FALSE)

SpecFn == Init /\ [][NextFn]_vars

(***************************************************************************)
(* calculCRC32 / 16 / 7 as functions of the line and of whatever the       *)
(* tables hold: zeroes, the initialisers' values, or anything else.        *)
(***************************************************************************)
Tabel32Final == [d \in Index |-> Intrare32(d)]
Tabel16Final == [d \in Index |-> Intrare16(d)]
Tabel7Final == [d \in Index |-> Intrare7(d)]

TabeleOarecare ==
    { <<[d \in Index |-> <<0, 0>>], [d \in Index |-> 0], [d \in Index |-> 0]>>,
      <<Tabel32Final, Tabel16Final, Tabel7Final>>,
      <<[d \in Index |-> <<65535, 65535 - d>>], [d \in Index |-> 65535 - d],
        [d \in Index |-> 255 - d]>> }

InitAny ==
    /\ InitComun
    /\ tabel_CRC32_initializat = TRUE
    /\ tabel_CRC16_initializat = TRUE
    /\ tabel_CRC7_initializat = TRUE
    /\ \E T \in TabeleOarecare :
          /\ tabel_CRC32 = T[1]
          /\ tabel_CRC16 = T[2]
          /\ tabel_CRC7 = T[3]
    /\ construit = TRUE

NextAny ==
    \/ \E s \in Inputs : Calcul32(2, s) \/ Calcul16(3, s) \/ Calcul7(4, s)
    \/ PasiCalcul(FALSE)

SpecAny == InitAny /\ [][NextAny]_vars

(***************************************************************************)
(* The bit-by-bit division the tables replace.                             *)
(***************************************************************************)
RECURSIVE Repeta(_, _, _)
Repeta(F(_), r, n) == IF n = 0 THEN r ELSE Repeta(F, F(r), n - 1)

RefBit32(r) == IF r[2] % 2 = 1 THEN Xor32(Shr32(r), polinomCRC32) ELSE Shr32(r)
RefBit16(r) == IF r % 2 = 1 THEN Xor16(r \div 2, polinomCRC16) ELSE r \div 2
RefBit7(r) == IF r >= 128 THEN Xor16((2 * r) % 256, polinomCRC7) ELSE (2 * r) % 256

RefOctet32(r, b) == Repeta(RefBit32, <<r[1], Xor16(r[2], b)>>, 8)
RefOctet16(r, b) == Repeta(RefBit16, Xor16(r, b), 8)
RefOctet7(r, b) == Repeta(RefBit7, Xor16(r, b), 8)

RECURSIVE RefFold(_, _, _, _)
RefFold(G(_, _), r, s, i) ==
    IF i > Len(s) THEN r ELSE RefFold(G, G(r, s[i]), s, i + 1)

RefCRC32(s) == Xor32(RefFold(RefOctet32, <<65535, 65535>>, s, 1), <<65535, 65535>>)
RefCRC16(s) == RefFold(RefOctet16, 0, s, 1)
RefCRC7(s) == RefFold(RefOctet7, 0, s, 1) \div 2

Sub128(s) == \A i \in DOMAIN s : s[i] <= 127
EsteCalcul == pc \in {"calc32", "calc16", "calc7"}

(***************************************************************************)
(* C1: once the tables are initialised, for every non-empty line the       *)
(* table-driven calculCRC32 and calculCRC16 return what the bit-by-bit     *)
(* division returns, and so does calculCRC7 for bytes 0..127.              *)
(***************************************************************************)
C1_FoldEqualsBitwise ==
    sir_intrare # <<>> =>
        /\ afisat.msg = "CRC32" => afisat.val = RefCRC32(sir_intrare)
        /\ afisat.msg = "CRC16" => afisat.val = RefCRC16(sir_intrare)
        /\ (afisat.msg = "CRC7" /\ Sub128(sir_intrare)) =>
               afisat.val = RefCRC7(sir_intrare)

C1_Witness ==
    /\ afisat.msg = "CRC32"
    /\ Len(sir_intrare) = MaxLen
    /\ sir_intrare[1] = 255
    /\ afisat.val = RefCRC32(sir_intrare)

(***************************************************************************)
(* C2: after initialisation the checksums of "123456789" are the published *)
(* check values: 0xBB3D (CRC-16/ARC), 0x75 (CRC-7/MMC), 0xCBF43926         *)
(* (CRC-32/ISO-HDLC).                                                      *)
(***************************************************************************)
C2_CheckValues ==
    sir_intrare = SirVerificare =>
        /\ afisat.msg = "CRC16" => afisat.val = 47933
        /\ afisat.msg = "CRC7" => afisat.val = 117
        /\ afisat.msg = "CRC32" => afisat.val = <<52212, 14630>>

C2_Witness ==
    /\ afisat.msg = "CRC32"
    /\ sir_intrare = SirVerificare
    /\ afisat.val = <<52212, 14630>>

(***************************************************************************)
(* C3: the checksum of the empty line is init XOR xor_out = 0 for every    *)
(* variant, no table entry is read, whatever the tables contain.           *)
(***************************************************************************)
C3_EmptyInput ==
    sir_intrare = <<>> =>
        /\ EsteCalcul => lookups = 0
        /\ afisat.msg = "CRC32" => (afisat.val = <<0, 0>> /\ lookups = 0)
        /\ afisat.msg = "CRC16" => (afisat.val = 0 /\ lookups = 0)
        /\ afisat.msg = "CRC7" => (afisat.val = 0 /\ lookups = 0)

C3_Witness ==
    /\ afisat.msg = "CRC32"
    /\ sir_intrare = <<>>
    /\ tabel_CRC32 # Tabel32Final
    /\ tabel_CRC32[0] # <<0, 0>>

(***************************************************************************)
(* C4: the value returned lies in [0, 2^width - 1]: calculCRC7 in          *)
(* [0, 127], calculCRC16 in [0, 65535], calculCRC32 in [0, 2^32 - 1].      *)
(***************************************************************************)
C4_ResultInRange ==
    /\ afisat.msg = "CRC7" => afisat.val \in 0 .. 127
    /\ afisat.msg = "CRC16" => afisat.val \in 0 .. 65535
    /\ afisat.msg = "CRC32" =>
           (afisat.val[1] \in 0 .. 65535 /\ afisat.val[2] \in 0 .. 65535)

C4_Witness ==
    /\ afisat.msg = "CRC7"
    /\ sir_intrare = <<255, 255>>
    /\ afisat.val \in 0 .. 127

C6_ComputeOnlyAfterBuild ==
    /\ [](/\ pc = "calc32" => tabel_CRC32 = Tabel32Final
          /\ pc = "calc16" => tabel_CRC16 = Tabel16Final
          /\ pc = "calc7" => tabel_CRC7 = Tabel7Final)
    /\ [][(pc = "menu" /\ ~tabel_CRC32_initializat /\ opt' \in 2 .. 4) =>
              /\ pc' = "menu"
              /\ afisat'.msg \in
                   {"Se recomanda initializarea tabelului de cautare CRC32 intai.",
                    "Se recomanda initializarea tabelului de cautare CRC16 intai.",
                    "Se recomanda initializarea tabelului de cautare CRC7 intai."}
              /\ UNCHANGED <<flags, tabele, calcVars, ultim>>]_vars

C6_Witness ==
    /\ pc = "calc16"
    /\ lookups > 0
    /\ tabel_CRC16 = Tabel16Final

C8_FlagMeansComplete ==
    /\ tabel_CRC32_initializat => tabel_CRC32 = Tabel32Final
    /\ tabel_CRC16_initializat => tabel_CRC16 = Tabel16Final
    /\ tabel_CRC7_initializat => tabel_CRC7 = Tabel7Final

(***************************************************************************)
(* C9: a selection outside 0..4 prints "Optiune incorecta.", enters no     *)
(* checksum function and no initialiser, leaves the flags and the tables   *)
(* unchanged and returns to the menu.                                      *)
(***************************************************************************)
C9_InvalidSelection ==
    [][(pc = "menu" /\ opt' \notin 0 .. 4) =>
           /\ pc' = "menu"
           /\ afisat' = Mesaj("Optiune incorecta.", 0)
           /\ UNCHANGED <<flags, tabele, calcVars, ultim, sir_intrare>>]_vars

C9_Witness ==
    /\ pc = "menu"
    /\ opt = -1
    /\ afisat.msg = "Optiune incorecta."
    /\ construit

(***************************************************************************)
(* C10: every table read of calculCRC32, calculCRC16 and calculCRC7 uses   *)
(* an index in 0..255, for every byte 0x00..0xFF.                          *)
(***************************************************************************)
C10_IndexInTable ==
    (EsteCalcul /\ lookups > 0) => termen \in Index

====
